---- MODULE Spec2Model ----
(***************************************************************************)
(* Model of integration/awskms/aws_kms_client.go: the option-driven        *)
(* construction of awsClient, the credential-file resolver, the region     *)
(* parser, Supported and GetAEAD with the two handle-construction          *)
(* strategies (the default v1 builder closure and v2Client.BuildAead).     *)
(*                                                                         *)
(* Strings whose characters matter (URIs, prefixes) are sequences of       *)
(* one-character strings.  Errors are sequences of message strings, an     *)
(* fmt.Errorf wrap prepending its message; the empty sequence is nil.      *)
(***************************************************************************)
EXTENDS Integers, Sequences, FiniteSets, TLC

VARIABLES
    fs,         \* the file system: path -> [exists, bareQuote, records]
    phase,      \* "unconfigured" | "ready" | "failed"
    args,       \* the constructor call: [fn, uriPrefix, opts]
    a,          \* the awsClient descriptor
    v,          \* the v2Client bound to a.builder (zero value when none)
    ret,        \* what the constructor returned: [client : BOOLEAN, err]
    setLog,     \* every ClientOption.set call made: <<[opt, err]>>
    v2SetLog,   \* every V2ClientOption.set call made: <<[opt, err]>>
    pc,         \* position of each caller inside GetAEAD
    call,       \* per caller: [seq, keyURI, uri, name] of its latest call
    result,     \* per caller: [seq, aead, err] of its last completed call
    nCalls,     \* GetAEAD calls started
    nInvoked,   \* times c.builder was invoked
    built,      \* handles constructed lazily, in construction order
    nAttempts,  \* lazy constructions attempted (getKMS / LoadDefaultConfig calls)
    supp,       \* last Supported query: [asked, keyURI, result]
    cred,       \* last getKMSFromCredentialPath call: [asked, uriPrefix, path, out]
    csv,        \* last extractCredsCSV call: [asked, file, out]
    enc,        \* last Encrypt call on an adapter: [done, id, aead, pt, ad, out]
    dec         \* last Decrypt call on an adapter: [done, aead, ct, ad, out]

vars == <<fs, phase, args, a, v, ret, setLog, v2SetLog, pc, call, result,
          nCalls, nInvoked, built, nAttempts, supp, cred, csv, enc, dec>>

buildVars == <<phase, args, a, v, ret, setLog, v2SetLog>>
runVars == <<pc, call, result, nCalls, nInvoked, built, nAttempts>>
probeVars == <<supp, cred, csv>>
aeadVars == <<enc, dec>>

-----------------------------------------------------------------------------
(* Bounds *)

\* Total weight of a constructor's option list: one per ClientOption plus one
\* per V2ClientOption nested in a WithV2KMSOptions.
MaxOpts == 3
\* GetAEAD calls started after construction.
MaxCalls == 3
\* Credential tables drawn for the resolver: lines per file, fields per line.
MaxLines == 3
MaxWidth == 5
\* GetAEAD calls a caller makes before and between its Encrypt and Decrypt calls.
MaxAdapters == 2

-----------------------------------------------------------------------------
(* Strings *)

awsPrefix == <<"a","w","s","-","k","m","s",":","/","/">>

\* time.Duration in seconds
defaultTimeout == 5

Uppers == <<"A","B","C","D","E","F","G","H","I","J","K","L","M",
            "N","O","P","Q","R","S","T","U","V","W","X","Y","Z">>
Lowers == <<"a","b","c","d","e","f","g","h","i","j","k","l","m",
            "n","o","p","q","r","s","t","u","v","w","x","y","z">>
Digits == {"0","1","2","3","4","5","6","7","8","9"}

Range(s) == {s[i] : i \in DOMAIN s}

ToLowerChar(c) ==
    IF c \in Range(Uppers)
    THEN Lowers[CHOOSE i \in DOMAIN Uppers : Uppers[i] = c]
    ELSE c

\* strings.ToLower
ToLower(s) == [i \in DOMAIN s |-> ToLowerChar(s[i])]

\* strings.HasPrefix(s, prefix)
HasPrefix(s, prefix) ==
    /\ Len(s) >= Len(prefix)
    /\ SubSeq(s, 1, Len(prefix)) = prefix

\* strings.TrimPrefix(s, prefix)
TrimPrefix(s, prefix) ==
    IF HasPrefix(s, prefix) THEN SubSeq(s, Len(prefix) + 1, Len(s)) ELSE s

-----------------------------------------------------------------------------
(* Errors *)

NoErr == <<>>
errCred == <<"invalid credential path">>
errBadFile == <<"cannot open credential path">>
errCredCSV == <<"malformed credential CSV file">>
errNotCSV == <<"not a valid CSV credential file">>
errCSVParse == <<"csv: parse error">>
errRegion == <<"extracting region from URI failed">>
errSession == <<"session.NewSession failed">>
errLoadConfig == <<"config.LoadDefaultConfig failed">>
errKMSSet(who) == <<who, "option cannot be used, KMS client already set">>
errV2KMSSet == <<"V2KMS client already set">>
errNameInvalid == <<"invalid EncryptionContextName">>
errNameSet == <<"encryptionContextName already set">>
errTimeoutSet == <<"timeout already set">>
errLoadSet == <<"load options already set">>
errKMSOptsSet == <<"KMS options already set">>

\* fmt.Errorf(msg + ": %v", err)
Wrap(msg, err) == <<msg>> \o err

-----------------------------------------------------------------------------
\* getRegion: the leftmost match of the pattern
\*   aws-kms://arn:  group 1 = aws[a-zA-Z0-9-_]{0,}  :kms:  group 2 = [a-z0-9-]{1,}  :
\* Neither character class contains ':', so each group ends at the first
\* character outside its class.

reHead == awsPrefix \o <<"a","r","n",":","a","w","s">>
reKms == <<":","k","m","s",":">>
PartitionClass == Range(Lowers) \cup Range(Uppers) \cup Digits \cup {"-", "_"}
RegionClass == Range(Lowers) \cup Digits \cup {"-"}

\* First index >= from whose character is outside class (Len(s)+1 if none).
ClassEnd(s, from, class) ==
    LET stops == {j \in from..Len(s) : s[j] \notin class}
    IN  IF stops = {} THEN Len(s) + 1
        ELSE CHOOSE j \in stops : \A k \in stops : j <= k

LitAt(s, i, lit) ==
    /\ i + Len(lit) - 1 <= Len(s)
    /\ SubSeq(s, i, i + Len(lit) - 1) = lit

\* Start of the region group for a match beginning at i.
RegionStart(s, i) == ClassEnd(s, i + Len(reHead), PartitionClass) + Len(reKms)

MatchAt(s, i) ==
    /\ LitAt(s, i, reHead)
    /\ LitAt(s, ClassEnd(s, i + Len(reHead), PartitionClass), reKms)
    /\ LET rs == RegionStart(s, i)
           re == ClassEnd(s, rs, RegionClass)
       IN  /\ re > rs
           /\ re <= Len(s)
           /\ s[re] = ":"

getRegion(keyURI) ==
    LET Group(rs) ==
            [region |-> SubSeq(keyURI, rs, ClassEnd(keyURI, rs, RegionClass) - 1),
             err |-> NoErr]
        Leftmost(starts) ==
            IF starts = {} THEN [region |-> <<>>, err |-> errRegion]
            ELSE Group(RegionStart(keyURI, CHOOSE i \in starts : \A k \in starts : i <= k))
    IN  Leftmost({i \in 1..Len(keyURI) : MatchAt(keyURI, i)})

-----------------------------------------------------------------------------
(* Remote-service handles.  origin tells how the object came to be; two    *)
(* handles are the same object iff the records are equal.                  *)

NilKMS == [origin |-> "nil"]

\* A preexisting kmsiface.KMSAPI handed to WithKMS.
SuppliedKMS(n) == [origin |-> "supplied", gen |-> 1, n |-> n]
\* A preexisting V2KMS handed to WithV2KMS.
SuppliedV2KMS(n) == [origin |-> "supplied", gen |-> 2, n |-> n]
\* kms.New(session): the n-th one made after construction (0: made by an option).
NewKMS(n, region, creds) ==
    [origin |-> "kms.New", gen |-> 1, n |-> n, region |-> region, creds |-> creds]
\* kmsv2.NewFromConfig(cfg, kmsOpts...)
NewV2KMS(n, loadOpts, kmsOpts) ==
    [origin |-> "kmsv2.NewFromConfig", gen |-> 2, n |-> n,
     loadOpts |-> loadOpts, kmsOpts |-> kmsOpts]

DefaultCreds == [kind |-> "default"]
StaticCreds(c) == [kind |-> "static", value |-> c]
SharedCreds(path, profile) == [kind |-> "shared", path |-> path, profile |-> profile]

-----------------------------------------------------------------------------
(* Credential files.  A file is [exists, bareQuote, records]: records are  *)
(* the comma-separated lines, bareQuote a line encoding/csv rejects.       *)

\* Line i of a table, with n fields; field j of line i is <<i, j>>.
Line(i, n) == [j \in 1..n |-> <<i, j>>]
\* The table whose line i has ws[i] fields.
Table(ws) == [i \in DOMAIN ws |-> Line(i, ws[i])]

NoFile == [exists |-> FALSE, bareQuote |-> FALSE, records |-> <<>>]
TextFile(ws) == [exists |-> TRUE, bareQuote |-> FALSE, records |-> Table(ws)]
QuoteFile(ws) == [exists |-> TRUE, bareQuote |-> TRUE, records |-> Table(ws)]

\* The files the constructors meet.
DefaultFS ==
    [path \in {"credentials.csv", "credentials.ini", "header_only.csv"} |->
        CASE path = "credentials.csv" -> TextFile(<<5, 5>>)
          [] path = "credentials.ini" -> TextFile(<<1, 1, 1>>)
          [] path = "header_only.csv" -> TextFile(<<5>>)]

\* os.Open(path)
Open(path) == IF path \in DOMAIN fs THEN fs[path] ELSE NoFile

\* csv.NewReader(f).ReadAll(): FieldsPerRecord is 0, so every record must have
\* as many fields as the first.
ReadAll(f) ==
    IF f.bareQuote \/ \E i \in DOMAIN f.records : Len(f.records[i]) # Len(f.records[1])
    THEN [lines |-> <<>>, err |-> errCSVParse]
    ELSE [lines |-> f.records, err |-> NoErr]

NoCredsValue == [AccessKeyID |-> <<>>, SecretAccessKey |-> <<>>]

\* extractCredsCSV testing the line count and the second line's width before
\* the one-column test.
extractCredsCSVMalformedFirst(file) ==
    LET Parsed(lines, err) ==
            IF err # NoErr THEN [creds |-> NoCredsValue, err |-> err]
            ELSE IF Len(lines) < 2 THEN [creds |-> NoCredsValue, err |-> errCredCSV]
            ELSE IF Len(lines[2]) < 4 THEN [creds |-> NoCredsValue, err |-> errCredCSV]
            ELSE IF Len(lines) > 0 /\ Len(lines[1]) = 1
                THEN [creds |-> NoCredsValue, err |-> errNotCSV]
            ELSE [creds |-> [AccessKeyID |-> lines[2][3], SecretAccessKey |-> lines[2][4]],
                  err |-> NoErr]
        Read(r) == Parsed(r.lines, r.err)
        Opened(f) ==
            IF ~f.exists THEN [creds |-> NoCredsValue, err |-> errBadFile]
            ELSE Read(ReadAll(f))
    IN  Opened(Open(file))

extractCredsCSV(file) ==
    LET Parsed(lines, err) ==
            IF err # NoErr THEN [creds |-> NoCredsValue, err |-> err]
            ELSE IF Len(lines) > 0 /\ Len(lines[1]) = 1
                THEN [creds |-> NoCredsValue, err |-> errNotCSV]
            ELSE IF Len(lines) < 2 THEN [creds |-> NoCredsValue, err |-> errCredCSV]
            ELSE IF Len(lines[2]) < 4 THEN [creds |-> NoCredsValue, err |-> errCredCSV]
            ELSE [creds |-> [AccessKeyID |-> lines[2][3], SecretAccessKey |-> lines[2][4]],
                  err |-> NoErr]
        Read(r) == Parsed(r.lines, r.err)
        Opened(f) ==
            IF ~f.exists THEN [creds |-> NoCredsValue, err |-> errBadFile]
            ELSE Read(ReadAll(f))
    IN  Opened(Open(file))

NoCreds == [kind |-> "none"]

\* getKMSFromCredentialPath returning early on errBadFile alone, so that a
\* malformed CSV file falls through to the shared-credentials fallback.
getKMSFromCredentialPathMalformedFallsBack(uriPrefix, credentialPath, sessOK) ==
    LET Session(r, creds) ==
            IF ~sessOK THEN [kms |-> NilKMS, err |-> errSession, creds |-> creds]
            ELSE [kms |-> NewKMS(0, r.region, creds), err |-> NoErr, creds |-> creds]
        Credentials(r, c) ==
            IF c.err = errBadFile
            THEN [kms |-> NilKMS, err |-> c.err, creds |-> NoCreds]
            ELSE Session(r, IF c.err = NoErr THEN StaticCreds(c.creds)
                            ELSE SharedCreds(credentialPath, "default"))
        Region(r) ==
            IF r.err # NoErr THEN [kms |-> NilKMS, err |-> r.err, creds |-> NoCreds]
            ELSE IF credentialPath = ""
                THEN [kms |-> NilKMS, err |-> errCred, creds |-> NoCreds]
            ELSE Credentials(r, extractCredsCSV(credentialPath))
    IN  Region(getRegion(uriPrefix))

\* sessOK: whether session.NewSession succeeds in the caller's environment.
\* [kms, err, creds]: creds is the credentials object made before the session.
getKMSFromCredentialPath(uriPrefix, credentialPath, sessOK) ==
    LET Session(r, creds) ==
            IF ~sessOK THEN [kms |-> NilKMS, err |-> errSession, creds |-> creds]
            ELSE [kms |-> NewKMS(0, r.region, creds), err |-> NoErr, creds |-> creds]
        Credentials(r, c) ==
            IF c.err \in {errBadFile, errCredCSV}
            THEN [kms |-> NilKMS, err |-> c.err, creds |-> NoCreds]
            ELSE Session(r, IF c.err = NoErr THEN StaticCreds(c.creds)
                            ELSE SharedCreds(credentialPath, "default"))
        Region(r) ==
            IF r.err # NoErr THEN [kms |-> NilKMS, err |-> r.err, creds |-> NoCreds]
            ELSE IF credentialPath = ""
                THEN [kms |-> NilKMS, err |-> errCred, creds |-> NoCreds]
            ELSE Credentials(r, extractCredsCSV(credentialPath))
    IN  Region(getRegion(uriPrefix))

\* n: how many handles were constructed lazily before this one.
getKMS(uriPrefix, n, sessOK) ==
    LET Region(r) ==
            IF r.err # NoErr THEN [kms |-> NilKMS, err |-> r.err]
            ELSE IF ~sessOK THEN [kms |-> NilKMS, err |-> errSession]
            ELSE [kms |-> NewKMS(n + 1, r.region, DefaultCreds), err |-> NoErr]
    IN  Region(getRegion(uriPrefix))

-----------------------------------------------------------------------------
(* EncryptionContextName *)

AssociatedData == 1
LegacyAdditionalData == 2

encryptionContextNames ==
    [n \in {AssociatedData, LegacyAdditionalData} |->
        IF n = AssociatedData THEN "associatedData" ELSE "additionalData"]

valid(n) == n \in DOMAIN encryptionContextNames

-----------------------------------------------------------------------------
(* Options.  An option value is a record naming its constructor and its    *)
(* argument; set is the closure the constructor returns.                   *)

WithCredentialPath(credentialPath) == [op |-> "WithCredentialPath", path |-> credentialPath]
WithKMS(kms) == [op |-> "WithKMS", kms |-> kms]
WithEncryptionContextName(name) == [op |-> "WithEncryptionContextName", name |-> name]
UseV2 == [op |-> "UseV2"]
WithV2KMSOptions(opts) == [op |-> "WithV2KMSOptions", opts |-> opts]
WithV2KMS(kms) == [op |-> "WithV2KMS", kms |-> kms]
WithAPITimeout(timeout) == [op |-> "WithAPITimeout", timeout |-> timeout]
WithLoadOptions(opts) == [op |-> "WithLoadOptions", opts |-> opts]
WithKMSOptions(opts) == [op |-> "WithKMSOptions", opts |-> opts]

\* var v v2Client
ZeroV2Client == [kms |-> NilKMS, kmsOpts |-> <<>>, loadOpts |-> <<>>, timeout |-> 0]

\* V2ClientOption.set(&v): [v, err]
SetV2(vc, opt) ==
    CASE opt.op = "WithV2KMS" ->
            IF vc.kms # NilKMS THEN [v |-> vc, err |-> errV2KMSSet]
            ELSE [v |-> [vc EXCEPT !.kms = opt.kms], err |-> NoErr]
      [] opt.op = "WithAPITimeout" ->
            IF vc.timeout # 0 THEN [v |-> vc, err |-> errTimeoutSet]
            ELSE [v |-> [vc EXCEPT !.timeout = opt.timeout], err |-> NoErr]
      [] opt.op = "WithLoadOptions" ->
            IF Len(vc.loadOpts) > 0 THEN [v |-> vc, err |-> errLoadSet]
            ELSE [v |-> [vc EXCEPT !.loadOpts = opt.opts], err |-> NoErr]
      [] opt.op = "WithKMSOptions" ->
            IF Len(vc.kmsOpts) > 0 THEN [v |-> vc, err |-> errKMSOptsSet]
            ELSE [v |-> [vc EXCEPT !.kmsOpts = opt.opts], err |-> NoErr]

\* The loop of WithV2KMSOptions over opts[i..]: [v, err, log]
RECURSIVE ApplyV2Opts(_, _, _, _)
ApplyV2Opts(vc, opts, i, log) ==
    IF i > Len(opts) THEN [v |-> vc, err |-> NoErr, log |-> log]
    ELSE LET Applied(r, log2) ==
                 IF r.err # NoErr
                 THEN [v |-> r.v, err |-> Wrap("failed setting option", r.err),
                       log |-> log2]
                 ELSE ApplyV2Opts(r.v, opts, i + 1, log2)
             Logged(r) == Applied(r, Append(log, [opt |-> opts[i], err |-> r.err]))
         IN  Logged(SetV2(vc, opts[i]))

\* set with a WithEncryptionContextName that overwrites a name already set.
SetOverwritesName(st, opt, sessOK) ==
    CASE opt.op = "WithCredentialPath" ->
            IF st.a.kms # NilKMS
            THEN [st EXCEPT !.err = errKMSSet("WithCredentialPath")]
            ELSE LET Resolved(r) ==
                         IF r.err # NoErr THEN [st EXCEPT !.err = r.err]
                         ELSE [st EXCEPT !.a.kms = r.kms, !.err = NoErr]
                 IN  Resolved(getKMSFromCredentialPath(st.a.keyURIPrefix, opt.path,
                                                       sessOK))
      [] opt.op = "WithKMS" ->
            IF st.a.kms # NilKMS
            THEN [st EXCEPT !.err = errKMSSet("WithKMS")]
            ELSE [st EXCEPT !.a.kms = opt.kms, !.err = NoErr]
      [] opt.op = "WithEncryptionContextName" ->
            IF ~valid(opt.name) THEN [st EXCEPT !.err = errNameInvalid]
            ELSE [st EXCEPT !.a.encryptionContextName = opt.name, !.err = NoErr]
      [] opt.op = "UseV2" ->
            [st EXCEPT !.a.builder = "v2", !.v = ZeroV2Client, !.err = NoErr]
      [] opt.op = "WithV2KMSOptions" ->
            LET Applied(r) ==
                    [st EXCEPT !.a.builder = "v2", !.v = r.v, !.v2log = r.log,
                               !.err = r.err]
            IN  Applied(ApplyV2Opts(ZeroV2Client, opt.opts, 1, st.v2log))

\* ClientOption.set(a) on the construction state st = [a, v, v2log]:
\* [a, v, v2log, err]
Set(st, opt, sessOK) ==
    CASE opt.op = "WithCredentialPath" ->
            IF st.a.kms # NilKMS
            THEN [st EXCEPT !.err = errKMSSet("WithCredentialPath")]
            ELSE LET Resolved(r) ==
                         IF r.err # NoErr THEN [st EXCEPT !.err = r.err]
                         ELSE [st EXCEPT !.a.kms = r.kms, !.err = NoErr]
                 IN  Resolved(getKMSFromCredentialPath(st.a.keyURIPrefix, opt.path,
                                                       sessOK))
      [] opt.op = "WithKMS" ->
            IF st.a.kms # NilKMS
            THEN [st EXCEPT !.err = errKMSSet("WithKMS")]
            ELSE [st EXCEPT !.a.kms = opt.kms, !.err = NoErr]
      [] opt.op = "WithEncryptionContextName" ->
            IF ~valid(opt.name) THEN [st EXCEPT !.err = errNameInvalid]
            ELSE IF st.a.encryptionContextName # 0 THEN [st EXCEPT !.err = errNameSet]
            ELSE [st EXCEPT !.a.encryptionContextName = opt.name, !.err = NoErr]
      [] opt.op = "UseV2" ->
            [st EXCEPT !.a.builder = "v2", !.v = ZeroV2Client, !.err = NoErr]
      [] opt.op = "WithV2KMSOptions" ->
            LET Applied(r) ==
                    [st EXCEPT !.a.builder = "v2", !.v = r.v, !.v2log = r.log,
                               !.err = r.err]
            IN  Applied(ApplyV2Opts(ZeroV2Client, opt.opts, 1, st.v2log))

\* The option loop without its early return: every option is applied, and the
\* first error is reported at the end.
RECURSIVE ApplyOptsKeepGoing(_, _, _, _, _)
ApplyOptsKeepGoing(st, opts, i, log, sessOK) ==
    IF i > Len(opts)
    THEN LET First(bad) ==
                 [a |-> st.a, v |-> st.v, v2log |-> st.v2log, log |-> log,
                  err |-> IF bad = {} THEN NoErr
                          ELSE Wrap("failed setting option",
                                    log[CHOOSE j \in bad : \A k \in bad : j <= k].err)]
         IN  First({j \in DOMAIN log : log[j].err # NoErr})
    ELSE LET Applied(r) ==
                 ApplyOptsKeepGoing(r, opts, i + 1,
                                    Append(log, [opt |-> opts[i], err |-> r.err]), sessOK)
         IN  Applied(Set(st, opts[i], sessOK))

\* The option loop of NewClientWithOptions over opts[i..]: [a, v, v2log, err, log]
RECURSIVE ApplyOpts(_, _, _, _, _)
ApplyOpts(st, opts, i, log, sessOK) ==
    IF i > Len(opts)
    THEN [a |-> st.a, v |-> st.v, v2log |-> st.v2log, err |-> NoErr, log |-> log]
    ELSE LET Applied(r, log2) ==
                 IF r.err # NoErr
                 THEN [a |-> r.a, v |-> r.v, v2log |-> r.v2log,
                       err |-> Wrap("failed setting option", r.err), log |-> log2]
                 ELSE ApplyOpts(r, opts, i + 1, log2, sessOK)
             Logged(r) == Applied(r, Append(log, [opt |-> opts[i], err |-> r.err]))
         IN  Logged(Set(st, opts[i], sessOK))

\* a := &awsClient{keyURIPrefix: uriPrefix}; a.builder = the v1 closure
NewDescriptor(uriPrefix) ==
    [keyURIPrefix |-> uriPrefix, kms |-> NilKMS, encryptionContextName |-> 0,
     builder |-> "v1"]

\* Before any constructor ran there is no descriptor.
NoDescriptor == [keyURIPrefix |-> <<>>, kms |-> NilKMS, encryptionContextName |-> 0,
                 builder |-> "none"]

SchemeOK(uriPrefix) == HasPrefix(ToLower(uriPrefix), awsPrefix)

\* NewClientWithOptions defaulting the name to LegacyAdditionalData.
NewClientWithOptionsResultLegacyDefault(uriPrefix, opts, sessOK) ==
    IF ~SchemeOK(uriPrefix)
    THEN [client |-> FALSE, err |-> <<"uriPrefix must start with aws-kms://">>,
          a |-> NoDescriptor, v |-> ZeroV2Client, log |-> <<>>, v2log |-> <<>>]
    ELSE LET Configured(r) ==
                 IF r.err # NoErr
                 THEN [client |-> FALSE, err |-> r.err, a |-> r.a, v |-> r.v,
                       log |-> r.log, v2log |-> r.v2log]
                 ELSE [client |-> TRUE, err |-> NoErr,
                       a |-> IF r.a.encryptionContextName = 0
                             THEN [r.a EXCEPT !.encryptionContextName =
                                                  LegacyAdditionalData]
                             ELSE r.a,
                       v |-> r.v, log |-> r.log, v2log |-> r.v2log]
         IN  Configured(ApplyOpts([a |-> NewDescriptor(uriPrefix), v |-> ZeroV2Client,
                                   v2log |-> <<>>, err |-> NoErr],
                                  opts, 1, <<>>, sessOK))

\* [client, err, a, v, log, v2log]: client says whether a client was returned;
\* a, v are the descriptor and v2Client as the constructor left them.
NewClientWithOptionsResult(uriPrefix, opts, sessOK) ==
    IF ~SchemeOK(uriPrefix)
    THEN [client |-> FALSE, err |-> <<"uriPrefix must start with aws-kms://">>,
          a |-> NoDescriptor, v |-> ZeroV2Client, log |-> <<>>, v2log |-> <<>>]
    ELSE LET Configured(r) ==
                 IF r.err # NoErr
                 THEN [client |-> FALSE, err |-> r.err, a |-> r.a, v |-> r.v,
                       log |-> r.log, v2log |-> r.v2log]
                 ELSE [client |-> TRUE, err |-> NoErr,
                       a |-> IF r.a.encryptionContextName = 0
                             THEN [r.a EXCEPT !.encryptionContextName = AssociatedData]
                             ELSE r.a,
                       v |-> r.v, log |-> r.log, v2log |-> r.v2log]
         IN  Configured(ApplyOpts([a |-> NewDescriptor(uriPrefix), v |-> ZeroV2Client,
                                   v2log |-> <<>>, err |-> NoErr],
                                  opts, 1, <<>>, sessOK))

-----------------------------------------------------------------------------
(* Supported and the adapters *)

\* Supported checking the scheme alone.
SupportedSchemeOnly(c, keyURI) == HasPrefix(keyURI, awsPrefix)

\* Supported comparing without regard to letter case.
SupportedFold(c, keyURI) == HasPrefix(ToLower(keyURI), ToLower(c.keyURIPrefix))

\* awsClient.Supported
Supported(c, keyURI) == HasPrefix(keyURI, c.keyURIPrefix)

NoAEAD == [gen |-> 0]

\* The v1 builder handing newAWSAEAD a handle variable it never assigned.
newAWSAEADNilHandle(keyURI, kms, name) ==
    [gen |-> 1, keyURI |-> keyURI, kms |-> NilKMS, encryptionContextName |-> name]

newAWSAEAD(keyURI, kms, name) ==
    [gen |-> 1, keyURI |-> keyURI, kms |-> kms, encryptionContextName |-> name]
newAWSV2AEAD(keyURI, kms, name, timeout) ==
    [gen |-> 2, keyURI |-> keyURI, kms |-> kms, encryptionContextName |-> name,
     timeout |-> timeout]

errUnsupported == <<"keyURI must start with prefix">>

-----------------------------------------------------------------------------
(* Inputs *)

ArnR1 == <<"a","r","n",":","a","w","s",":","k","m","s",":","r","1",":">>
ArnR2 == <<"a","r","n",":","a","w","s",":","k","m","s",":","r","2",":">>
ArnGov == <<"a","r","n",":","a","w","s","-","g",":","k","m","s",":","r","-","1",":">>

PrefixScheme == awsPrefix
PrefixRegion == awsPrefix \o ArnR1
PrefixUpper == <<"A","W","S","-","K","M","S",":","/","/">> \o ArnR1
PrefixGov == awsPrefix \o ArnGov
PrefixBad == <<"b","a","d",":","/","/">> \o ArnR1
PrefixShort == <<"a","w","s","-","k","m","s",":","/">>

Prefixes == {PrefixScheme, PrefixRegion, PrefixUpper, PrefixBad, PrefixShort}

KeyURIs ==
    {PrefixRegion \o <<"k","1">>, PrefixRegion \o <<"k","2">>,
     awsPrefix \o ArnR2 \o <<"k","1">>, PrefixUpper \o <<"k","1">>}

Callers == {"g1", "g2"}

KMSHandles == {SuppliedKMS(1), SuppliedKMS(2)}
V2KMSHandles == {SuppliedV2KMS(1), SuppliedV2KMS(2)}
Paths == {"credentials.csv", "credentials.ini", "header_only.csv"}
Names == 0..3
Timeouts == {0, 3}

V2Opts ==
    {WithV2KMS(k) : k \in V2KMSHandles}
        \cup {WithAPITimeout(t) : t \in Timeouts}
        \cup {WithLoadOptions(o) : o \in {<<>>, <<"lo">>}}
        \cup {WithKMSOptions(o) : o \in {<<>>, <<"ko">>}}

\* Sequences over V2Opts of length at most n.
RECURSIVE V2OptSeqs(_)
V2OptSeqs(n) ==
    IF n <= 0 THEN {<<>>}
    ELSE LET shorter == V2OptSeqs(n - 1)
         IN  shorter \cup {Append(x, o) : x \in {y \in shorter : Len(y) = n - 1},
                                          o \in V2Opts}

AtomicOpts ==
    {WithKMS(k) : k \in KMSHandles}
        \cup {WithCredentialPath(p) : p \in Paths}
        \cup {WithEncryptionContextName(n) : n \in Names}
        \cup {UseV2}

Weight(opt) == IF opt.op = "WithV2KMSOptions" THEN 1 + Len(opt.opts) ELSE 1

\* The options of weight w.
OptsOfWeight(w) ==
    {WithV2KMSOptions(vs) : vs \in {x \in V2OptSeqs(w - 1) : Len(x) = w - 1}}
        \cup (IF w = 1 THEN AtomicOpts ELSE {})

\* Option lists of total weight at most n.
RECURSIVE OptSeqs(_)
OptSeqs(n) ==
    IF n <= 0 THEN {<<>>}
    ELSE {<<>>} \cup
         UNION {LET rests == OptSeqs(n - w)
                IN  {<<o>> \o rest : o \in OptsOfWeight(w), rest \in rests} :
                w \in 1..n}

BuildOptSeqs == OptSeqs(MaxOpts)

\* The configurations GetAEAD is exercised on.
RunOptSeqs ==
    {<<>>,
     <<WithKMS(SuppliedKMS(1))>>,
     <<WithCredentialPath("credentials.csv")>>,
     <<WithEncryptionContextName(LegacyAdditionalData)>>,
     <<UseV2>>,
     <<WithV2KMSOptions(<<WithV2KMS(SuppliedV2KMS(1))>>)>>,
     <<WithV2KMSOptions(<<WithAPITimeout(3), WithLoadOptions(<<"lo">>)>>)>>,
     <<WithKMS(SuppliedKMS(1)), UseV2>>,
     <<WithKMS(SuppliedKMS(1)), WithV2KMSOptions(<<WithV2KMS(SuppliedV2KMS(1))>>)>>,
     <<WithV2KMSOptions(<<WithV2KMS(SuppliedV2KMS(1))>>), UseV2>>,
     <<WithKMS(SuppliedKMS(1)), WithKMS(SuppliedKMS(2))>>}

-----------------------------------------------------------------------------
(* The remote AEAD adapter and the remote service.  Byte strings are        *)
(* sequences of numbers in 0..255.                                          *)

HexDigits == <<"0","1","2","3","4","5","6","7","8","9","a","b","c","d","e","f">>

\* The fixed reversible text encoding of the associated data: two hexadecimal
\* digits per byte.
RECURSIVE EncodeToString(_)
EncodeToString(bytes) ==
    IF bytes = <<>> THEN <<>>
    ELSE <<HexDigits[(Head(bytes) \div 16) + 1], HexDigits[(Head(bytes) % 16) + 1]>>
             \o EncodeToString(Tail(bytes))

\* A request context that leaves the associated data out.
EncryptionContextUnbound(aead, associatedData) == {}

\* The context map of a request: a single entry under the configured field
\* name; empty and absent associated data give the same (empty) map.
EncryptionContext(aead, associatedData) ==
    IF Len(associatedData) = 0 THEN {}
    ELSE {<<encryptionContextNames[aead.encryptionContextName],
            EncodeToString(associatedData)>>}

\* The keys the remote service holds, by resource locator.
KnownKeys == {ArnR1 \o <<"k","1">>, ArnR1 \o <<"k","2">>, ArnR2 \o <<"k","1">>}

errKeyNotFound == <<"remote: key not found">>
errInvalidCiphertext == <<"remote: invalid ciphertext">>
errContextMismatch == <<"remote: encryption context mismatch">>
errKeyMismatch == <<"decryption failed: wrong key id">>
errNilHandle == <<"no remote-service handle">>

NoCiphertext == [valid |-> FALSE]
\* A byte string the remote service never produced.
InvalidCiphertext == [valid |-> FALSE, junk |-> TRUE]

\* The remote service's Encrypt: the blob binds key, plaintext and context.
KMSEncrypt(req) ==
    IF req.KeyId \notin KnownKeys
    THEN [CiphertextBlob |-> NoCiphertext, err |-> errKeyNotFound]
    ELSE [CiphertextBlob |-> [valid |-> TRUE, key |-> req.KeyId, pt |-> req.Plaintext,
                              ctx |-> req.EncryptionContext],
          err |-> NoErr]

\* The remote service's Decrypt: fails unless the blob is one of its own and
\* the context is the one bound at encrypt time; answers with the blob's key.
KMSDecrypt(req) ==
    IF ~req.CiphertextBlob.valid
    THEN [Plaintext |-> <<>>, KeyId |-> <<>>, err |-> errInvalidCiphertext]
    ELSE IF req.CiphertextBlob.ctx # req.EncryptionContext
    THEN [Plaintext |-> <<>>, KeyId |-> <<>>, err |-> errContextMismatch]
    ELSE [Plaintext |-> req.CiphertextBlob.pt, KeyId |-> req.CiphertextBlob.key,
          err |-> NoErr]

\* Encrypt(plaintext, associatedData) of an adapter: one round trip.
AEADEncrypt(aead, plaintext, associatedData) ==
    IF aead.kms = NilKMS THEN [ct |-> NoCiphertext, err |-> errNilHandle]
    ELSE LET Answer(resp) == [ct |-> resp.CiphertextBlob, err |-> resp.err]
         IN  Answer(KMSEncrypt([KeyId |-> aead.keyURI, Plaintext |-> plaintext,
                                EncryptionContext |->
                                    EncryptionContext(aead, associatedData)]))

\* Decrypt(ciphertext, associatedData) of an adapter: one round trip, then the
\* check that the responding key is the one requested.
AEADDecrypt(aead, ciphertext, associatedData) ==
    IF aead.kms = NilKMS THEN [pt |-> <<>>, err |-> errNilHandle]
    ELSE LET Answer(resp) ==
                 IF resp.err # NoErr THEN [pt |-> <<>>, err |-> resp.err]
                 ELSE IF resp.KeyId # aead.keyURI THEN [pt |-> <<>>, err |-> errKeyMismatch]
                 ELSE [pt |-> resp.Plaintext, err |-> NoErr]
         IN  Answer(KMSDecrypt([KeyId |-> aead.keyURI, CiphertextBlob |-> ciphertext,
                                EncryptionContext |->
                                    EncryptionContext(aead, associatedData)]))

-----------------------------------------------------------------------------
(* State *)

NoCall == [seq |-> 0, keyURI |-> <<>>, uri |-> <<>>, name |-> 0]
NoResult == [seq |-> 0, aead |-> NoAEAD, err |-> NoErr]
NoCredCall == [asked |-> FALSE, uriPrefix |-> <<>>, path |-> "",
               out |-> [kms |-> NilKMS, err |-> NoErr, creds |-> NoCreds]]

NoEncrypt == [done |-> FALSE, id |-> <<>>, aead |-> NoAEAD, pt |-> <<>>, ad |-> <<>>,
              out |-> [ct |-> NoCiphertext, err |-> NoErr]]
NoDecrypt == [done |-> FALSE, aead |-> NoAEAD, ct |-> NoCiphertext, ad |-> <<>>,
              out |-> [pt |-> <<>>, err |-> NoErr]]
NoCSVCall == [asked |-> FALSE, file |-> "", out |-> [creds |-> NoCredsValue, err |-> NoErr]]

InitRest ==
    /\ phase = "unconfigured"
    /\ args = [fn |-> "none", uriPrefix |-> <<>>, opts |-> <<>>]
    /\ a = NoDescriptor
    /\ v = ZeroV2Client
    /\ ret = [client |-> FALSE, err |-> NoErr]
    /\ setLog = <<>>
    /\ v2SetLog = <<>>
    /\ pc = [g \in Callers |-> "idle"]
    /\ call = [g \in Callers |-> NoCall]
    /\ result = [g \in Callers |-> NoResult]
    /\ nCalls = 0
    /\ nInvoked = 0
    /\ built = <<>>
    /\ nAttempts = 0
    /\ supp = [asked |-> FALSE, keyURI |-> <<>>, result |-> FALSE]
    /\ cred = NoCredCall
    /\ csv = NoCSVCall
    /\ enc = NoEncrypt
    /\ dec = NoDecrypt

Init == fs = DefaultFS /\ InitRest

-----------------------------------------------------------------------------
(* Constructors *)

\* No constructor has run yet.
Unconfigured == phase = "unconfigured"

Construct(fn, uriPrefix, opts, sessOK) ==
    /\ Unconfigured
    /\ \E r \in {NewClientWithOptionsResult(uriPrefix, opts, sessOK)} :
           /\ phase' = IF r.client THEN "ready" ELSE "failed"
           /\ args' = [fn |-> fn, uriPrefix |-> uriPrefix, opts |-> opts]
           /\ a' = r.a
           /\ v' = r.v
           /\ ret' = [client |-> r.client, err |-> r.err]
           /\ setLog' = r.log
           /\ v2SetLog' = r.v2log
    /\ UNCHANGED <<fs, runVars, probeVars, aeadVars>>

NewClientWithOptions(uriPrefix, opts, sessOK) ==
    Construct("NewClientWithOptions", uriPrefix, opts, sessOK)

NewClient(uriPrefix) ==
    Construct("NewClient", uriPrefix,
              <<WithEncryptionContextName(LegacyAdditionalData)>>, TRUE)

NewClientWithCredentials(uriPrefix, credentialPath, sessOK) ==
    Construct("NewClientWithCredentials", uriPrefix,
              <<WithCredentialPath(credentialPath),
                WithEncryptionContextName(LegacyAdditionalData)>>, sessOK)

NewClientWithKMS(uriPrefix, kms) ==
    Construct("NewClientWithKMS", uriPrefix,
              <<WithKMS(kms), WithEncryptionContextName(LegacyAdditionalData)>>, TRUE)

-----------------------------------------------------------------------------
(* GetAEAD.  The callers are goroutines sharing the client; nothing in the  *)
(* code orders their accesses to a.kms, v.kms and v.timeout, so each read   *)
(* and each write of those fields is a step of its own.                     *)

Finish(g, aead, err) ==
    /\ result' = [result EXCEPT ![g] = [seq |-> call[g].seq, aead |-> aead, err |-> err]]
    /\ pc' = [pc EXCEPT ![g] = "idle"]

\* Lines 367-373: the Supported check, TrimPrefix and the call of c.builder.
GetAEAD(g, keyURI) ==
    /\ phase = "ready"
    /\ pc[g] = "idle"
    /\ nCalls < MaxCalls
    /\ nCalls' = nCalls + 1
    /\ call' = [call EXCEPT ![g] = [seq |-> nCalls + 1, keyURI |-> keyURI,
                                    uri |-> TrimPrefix(keyURI, awsPrefix),
                                    name |-> a.encryptionContextName]]
    /\ IF ~Supported(a, keyURI)
       THEN /\ result' = [result EXCEPT ![g] = [seq |-> nCalls + 1, aead |-> NoAEAD,
                                                 err |-> errUnsupported]]
            /\ UNCHANGED <<pc, nInvoked>>
       ELSE /\ pc' = [pc EXCEPT ![g] = IF a.builder = "v1" THEN "v1check" ELSE "v2timeout"]
            /\ nInvoked' = nInvoked + 1
            /\ UNCHANGED result
    /\ UNCHANGED <<fs, buildVars, built, nAttempts, probeVars, aeadVars>>

\* Line 263: if a.kms == nil
V1Check(g) ==
    /\ pc[g] = "v1check"
    /\ pc' = [pc EXCEPT ![g] = IF a.kms = NilKMS THEN "v1construct" ELSE "v1return"]
    /\ UNCHANGED <<fs, buildVars, call, result, nCalls, nInvoked, built, nAttempts, probeVars, aeadVars>>

\* A handle that records a failed construction.
FailedKMS == [origin |-> "failed"]

\* The v1 builder remembering a failed getKMS, so that later calls skip it.
V1ConstructMemoizesFailure(g, sessOK) ==
    /\ pc[g] = "v1construct"
    /\ nAttempts' = nAttempts + 1
    /\ \E r \in {getKMS(a.keyURIPrefix, Len(built), sessOK)} :
           IF r.err # NoErr
           THEN /\ Finish(g, NoAEAD, Wrap("building AEAD", r.err))
                /\ a' = [a EXCEPT !.kms = FailedKMS]
                /\ UNCHANGED built
           ELSE /\ a' = [a EXCEPT !.kms = r.kms]
                /\ built' = Append(built, r.kms)
                /\ pc' = [pc EXCEPT ![g] = "v1return"]
                /\ UNCHANGED result
    /\ UNCHANGED <<fs, phase, args, v, ret, setLog, v2SetLog, call, nCalls, nInvoked,
                   probeVars, aeadVars>>

\* Lines 264-268: getKMS(uriPrefix), then a.kms = k
V1Construct(g, sessOK) ==
    /\ pc[g] = "v1construct"
    /\ nAttempts' = nAttempts + 1
    /\ \E r \in {getKMS(a.keyURIPrefix, Len(built), sessOK)} :
           IF r.err # NoErr
           THEN /\ Finish(g, NoAEAD, Wrap("building AEAD", r.err))
                /\ UNCHANGED <<a, built>>
           ELSE /\ a' = [a EXCEPT !.kms = r.kms]
                /\ built' = Append(built, r.kms)
                /\ pc' = [pc EXCEPT ![g] = "v1return"]
                /\ UNCHANGED result
    /\ UNCHANGED <<fs, phase, args, v, ret, setLog, v2SetLog, call, nCalls, nInvoked,
                   probeVars, aeadVars>>

\* Line 270: newAWSAEAD(keyURI, a.kms, encContextName)
V1Return(g) ==
    /\ pc[g] = "v1return"
    /\ Finish(g, newAWSAEAD(call[g].uri, a.kms, call[g].name), NoErr)
    /\ UNCHANGED <<fs, buildVars, call, nCalls, nInvoked, built, nAttempts, probeVars, aeadVars>>

\* Lines 492-494: if v.timeout == 0 { v.timeout = defaultTimeout }
V2Timeout(g) ==
    /\ pc[g] = "v2timeout"
    /\ v' = IF v.timeout = 0 THEN [v EXCEPT !.timeout = defaultTimeout] ELSE v
    /\ pc' = [pc EXCEPT ![g] = "v2check"]
    /\ UNCHANGED <<fs, phase, args, a, ret, setLog, v2SetLog, call, result, nCalls,
                   nInvoked, built, nAttempts, probeVars, aeadVars>>

\* Line 499: if v.kms == nil
V2Check(g) ==
    /\ pc[g] = "v2check"
    /\ pc' = [pc EXCEPT ![g] = IF v.kms = NilKMS THEN "v2construct" ELSE "v2return"]
    /\ UNCHANGED <<fs, buildVars, call, result, nCalls, nInvoked, built, nAttempts, probeVars, aeadVars>>

\* Lines 500-510: config.LoadDefaultConfig, kmsv2.NewFromConfig, then v.kms = kmsClient
V2Construct(g, cfgOK) ==
    /\ pc[g] = "v2construct"
    /\ nAttempts' = nAttempts + 1
    /\ IF ~cfgOK
       THEN /\ Finish(g, NoAEAD,
                      Wrap("building AEAD", Wrap("loading AWS default config", errLoadConfig)))
            /\ UNCHANGED <<v, built>>
       ELSE LET k == NewV2KMS(Len(built) + 1, v.loadOpts, v.kmsOpts)
            IN  /\ v' = [v EXCEPT !.kms = k]
                /\ built' = Append(built, k)
                /\ pc' = [pc EXCEPT ![g] = "v2return"]
                /\ UNCHANGED result
    /\ UNCHANGED <<fs, phase, args, a, ret, setLog, v2SetLog, call, nCalls, nInvoked,
                   probeVars, aeadVars>>

\* Line 513: newAWSV2AEAD(keyURI, v.kms, encContextName, v.timeout)
V2Return(g) ==
    /\ pc[g] = "v2return"
    /\ Finish(g, newAWSV2AEAD(call[g].uri, v.kms, call[g].name, v.timeout), NoErr)
    /\ UNCHANGED <<fs, buildVars, call, nCalls, nInvoked, built, nAttempts, probeVars, aeadVars>>

Next ==
    \/ Unconfigured /\ \E p \in Prefixes, o \in RunOptSeqs, s \in BOOLEAN : NewClientWithOptions(p, o, s)
    \/ Unconfigured /\ \E p \in Prefixes : NewClient(p)
    \/ Unconfigured /\ \E p \in Prefixes, path \in Paths, s \in BOOLEAN : NewClientWithCredentials(p, path, s)
    \/ Unconfigured /\ \E p \in Prefixes, k \in KMSHandles : NewClientWithKMS(p, k)
    \/ \E g \in Callers, u \in KeyURIs : GetAEAD(g, u)
    \/ \E g \in Callers : V1Check(g)
    \/ \E g \in Callers, s \in BOOLEAN : V1Construct(g, s)
    \/ \E g \in Callers : V1Return(g)
    \/ \E g \in Callers : V2Timeout(g)
    \/ \E g \in Callers : V2Check(g)
    \/ \E g \in Callers, s \in BOOLEAN : V2Construct(g, s)
    \/ \E g \in Callers : V2Return(g)

Spec == Init /\ [][Next]_vars

-----------------------------------------------------------------------------
(* Construction alone, over every option list of weight at most MaxOpts. *)

NextBuild ==
    \/ Unconfigured /\ \E p \in Prefixes, o \in BuildOptSeqs, s \in BOOLEAN : NewClientWithOptions(p, o, s)
    \/ Unconfigured /\ \E p \in Prefixes : NewClient(p)
    \/ Unconfigured /\ \E p \in Prefixes, path \in Paths, s \in BOOLEAN : NewClientWithCredentials(p, path, s)
    \/ Unconfigured /\ \E p \in Prefixes, k \in KMSHandles : NewClientWithKMS(p, k)

SpecBuild == Init /\ [][NextBuild]_vars

-----------------------------------------------------------------------------
(* GetAEAD calls made one after the other: a call starts only when no other *)
(* call is in flight.                                                       *)

AllIdle == \A g \in Callers : pc[g] = "idle"

NextSeq ==
    \/ Unconfigured /\ \E p \in Prefixes, o \in RunOptSeqs, s \in BOOLEAN : NewClientWithOptions(p, o, s)
    \/ Unconfigured /\ \E p \in Prefixes : NewClient(p)
    \/ Unconfigured /\ \E p \in Prefixes, path \in Paths, s \in BOOLEAN : NewClientWithCredentials(p, path, s)
    \/ Unconfigured /\ \E p \in Prefixes, k \in KMSHandles : NewClientWithKMS(p, k)
    \/ \E g \in Callers, u \in KeyURIs : AllIdle /\ GetAEAD(g, u)
    \/ \E g \in Callers : V1Check(g)
    \/ \E g \in Callers, s \in BOOLEAN : V1Construct(g, s)
    \/ \E g \in Callers : V1Return(g)
    \/ \E g \in Callers : V2Timeout(g)
    \/ \E g \in Callers : V2Check(g)
    \/ \E g \in Callers, s \in BOOLEAN : V2Construct(g, s)
    \/ \E g \in Callers : V2Return(g)

SpecSeq == Init /\ [][NextSeq]_vars

-----------------------------------------------------------------------------
(* Encrypt and Decrypt on the adapters one caller obtains, its GetAEAD      *)
(* calls made one after the other.                                          *)

Plaintexts == {<<>>, <<7>>}
AssociatedDatas == {<<>>, <<1>>, <<16>>}

\* The adapter caller g holds: the one its last GetAEAD returned.
HoldsAdapter(g) ==
    /\ pc[g] = "idle"
    /\ result[g].seq > 0
    /\ result[g].err = NoErr

Encrypt(g, plaintext, associatedData) ==
    /\ HoldsAdapter(g)
    /\ enc' = [done |-> TRUE, id |-> call[g].keyURI, aead |-> result[g].aead,
                pt |-> plaintext, ad |-> associatedData,
                out |-> AEADEncrypt(result[g].aead, plaintext, associatedData)]
    /\ UNCHANGED <<fs, buildVars, runVars, probeVars, dec>>

\* The ciphertexts a caller can present: the last one produced, or junk.
Ciphertexts == {InvalidCiphertext} \cup (IF enc.out.ct.valid THEN {enc.out.ct} ELSE {})

Decrypt(g, ciphertext, associatedData) ==
    /\ HoldsAdapter(g)
    /\ dec' = [done |-> TRUE, aead |-> result[g].aead, ct |-> ciphertext,
                ad |-> associatedData,
                out |-> AEADDecrypt(result[g].aead, ciphertext, associatedData)]
    /\ UNCHANGED <<fs, buildVars, runVars, probeVars, enc>>

NextAEAD ==
    \/ Unconfigured /\ \E p \in Prefixes, o \in RunOptSeqs, s \in BOOLEAN : NewClientWithOptions(p, o, s)
    \/ Unconfigured /\ \E p \in Prefixes, k \in KMSHandles : NewClientWithKMS(p, k)
    \/ \E u \in KeyURIs : AllIdle /\ nCalls < MaxAdapters /\ GetAEAD("g1", u)
    \/ \E g \in Callers : V1Check(g)
    \/ \E g \in Callers, s \in BOOLEAN : V1Construct(g, s)
    \/ \E g \in Callers : V1Return(g)
    \/ \E g \in Callers : V2Timeout(g)
    \/ \E g \in Callers : V2Check(g)
    \/ \E g \in Callers, s \in BOOLEAN : V2Construct(g, s)
    \/ \E g \in Callers : V2Return(g)
    \/ \E pt \in Plaintexts, ad \in AssociatedDatas : Encrypt("g1", pt, ad)
    \/ \E ct \in Ciphertexts, ad \in AssociatedDatas : Decrypt("g1", ct, ad)

SpecAEAD == Init /\ [][NextAEAD]_vars

-----------------------------------------------------------------------------
(* Supported, asked of every truncation of the key URIs. *)

Identifiers ==
    UNION {{SubSeq(u, 1, n) : n \in 0..Len(u)} : u \in KeyURIs \cup {PrefixGov, PrefixBad}}

SupportedPrefixes == {PrefixScheme, PrefixRegion, PrefixUpper, PrefixGov}

SupportedCall(keyURI) ==
    /\ phase = "ready"
    /\ supp' = [asked |-> TRUE, keyURI |-> keyURI, result |-> Supported(a, keyURI)]
    /\ UNCHANGED <<fs, buildVars, runVars, cred, csv, aeadVars>>

NextSupported ==
    \/ Unconfigured /\ \E p \in SupportedPrefixes, o \in RunOptSeqs : NewClientWithOptions(p, o, TRUE)
    \/ \E u \in Identifiers : SupportedCall(u)

SpecSupported == Init /\ [][NextSupported]_vars

-----------------------------------------------------------------------------
(* The credential resolver, applied to every table of at most MaxLines      *)
(* lines of at most MaxWidth fields.                                        *)

WidthSeqs == UNION {[1..n -> 1..MaxWidth] : n \in 0..MaxLines}
CredFiles == {NoFile} \cup {TextFile(ws) : ws \in WidthSeqs}
                      \cup {QuoteFile(ws) : ws \in WidthSeqs}
CredPaths == {"", "cred"}
CredPrefixes == {PrefixScheme, PrefixRegion, PrefixUpper, PrefixGov}

InitCred == fs \in [{"cred"} -> CredFiles] /\ InitRest

ResolveCredentials(uriPrefix, credentialPath, sessOK) ==
    /\ cred' = [asked |-> TRUE, uriPrefix |-> uriPrefix, path |-> credentialPath,
                out |-> getKMSFromCredentialPath(uriPrefix, credentialPath, sessOK)]
    /\ UNCHANGED <<fs, buildVars, runVars, supp, csv, aeadVars>>

\* A call of extractCredsCSV(file) on its own.
ExtractCredsCSV(file) ==
    /\ csv' = [asked |-> TRUE, file |-> file, out |-> extractCredsCSV(file)]
    /\ UNCHANGED <<fs, buildVars, runVars, supp, cred, aeadVars>>

NextCred ==
    \/ \E p \in CredPrefixes, path \in CredPaths, s \in BOOLEAN :
           ResolveCredentials(p, path, s)
    \/ \E file \in CredPaths : ExtractCredsCSV(file)

SpecCred == InitCred /\ [][NextCred]_vars

-----------------------------------------------------------------------------
(* Properties *)

\* p is, character for character, the beginning of s.
IsLiteralPrefix(p, s) ==
    /\ Len(p) <= Len(s)
    /\ \A i \in 1..Len(p) : s[i] = p[i]

\* The scheme, each character in either letter case.
SchemeChars ==
    <<{"a","A"}, {"w","W"}, {"s","S"}, {"-"}, {"k","K"}, {"m","M"}, {"s","S"},
      {":"}, {"/"}, {"/"}>>

BeginsWithScheme(p) ==
    /\ Len(p) >= Len(SchemeChars)
    /\ \A i \in 1..Len(SchemeChars) : p[i] \in SchemeChars[i]

Constructed == phase # "unconfigured"

\* C4: GetAEAD on an identifier the client does not support returns an error
\* and no adapter in the very step of the call, without invoking the builder
\* and without changing the client's handle (a.kms, v.kms) or constructing one.
C4_UnsupportedRejected ==
    [][\A g \in Callers :
        (call'[g].seq = nCalls + 1 /\ ~IsLiteralPrefix(a.keyURIPrefix, call'[g].keyURI))
            => /\ result'[g] = [seq |-> nCalls + 1, aead |-> NoAEAD, err |-> errUnsupported]
               /\ pc'[g] = "idle"
               /\ nInvoked' = nInvoked
               /\ a' = a /\ v' = v /\ built' = built]_vars

\* C4 witness: a call on an unsupported identifier has returned its error while
\* the client still has no handle.
C4_Witness ==
    \E g \in Callers :
        /\ result[g].err = errUnsupported
        /\ result[g].seq = call[g].seq
        /\ ~IsLiteralPrefix(a.keyURIPrefix, call[g].keyURI)
        /\ a.kms = NilKMS /\ v.kms = NilKMS

\* C5: Supported(id) is true exactly when id begins, character for character,
\* with the client's prefix, whatever the handle, strategy or context name.
C5_SupportedIsLiteralPrefix ==
    supp.asked => (supp.result <=> IsLiteralPrefix(a.keyURIPrefix, supp.keyURI))

\* C5 witness: a v2 client with a supplied handle reports an identifier
\* unsupported that differs from its prefix in letter case only.
C5_Witness ==
    /\ supp.asked
    /\ ~supp.result
    /\ a.builder = "v2"
    /\ Len(supp.keyURI) >= Len(a.keyURIPrefix)
    /\ ToLower(SubSeq(supp.keyURI, 1, Len(a.keyURIPrefix))) = ToLower(a.keyURIPrefix)

\* C6: a constructor returns a client iff the prefix begins with the scheme in
\* any letter case and every option of the list, applied in the caller's order,
\* succeeded; otherwise it returns an error and no client, and the set calls
\* made stop at the first failing option.
C6_ClientIffAllOptionsSucceed ==
    Constructed =>
        /\ ret.client <=> /\ BeginsWithScheme(args.uriPrefix)
                          /\ Len(setLog) = Len(args.opts)
                          /\ \A i \in DOMAIN setLog : setLog[i].err = NoErr
        /\ ret.client <=> ret.err = NoErr
        /\ ret.client <=> phase = "ready"
        /\ Len(setLog) <= Len(args.opts)
        /\ \A i \in DOMAIN setLog : setLog[i].opt = args.opts[i]
        /\ \A i \in DOMAIN setLog : setLog[i].err # NoErr => i = Len(setLog)
        /\ ~BeginsWithScheme(args.uriPrefix) => setLog = <<>>

\* C6 witness: a construction failed at an option that was not the last of its
\* list, after an earlier option had succeeded.
C6_Witness ==
    /\ phase = "failed"
    /\ Len(setLog) = 2
    /\ Len(args.opts) = 3
    /\ setLog[1].err = NoErr
    /\ setLog[2].err # NoErr

HasNameOption(opts) == \E i \in DOMAIN opts : opts[i].op = "WithEncryptionContextName"

\* C7: a client of NewClientWithOptions without WithEncryptionContextName has
\* the name AssociatedData ("associatedData"), a client of NewClient,
\* NewClientWithCredentials or NewClientWithKMS has LegacyAdditionalData
\* ("additionalData"), and every adapter GetAEAD returned carries the client's name.
C7_ContextNameDefaults ==
    phase = "ready" =>
        /\ (args.fn = "NewClientWithOptions" /\ ~HasNameOption(args.opts))
              => /\ a.encryptionContextName = AssociatedData
                 /\ encryptionContextNames[a.encryptionContextName] = "associatedData"
        /\ args.fn \in {"NewClient", "NewClientWithCredentials", "NewClientWithKMS"}
              => /\ a.encryptionContextName = LegacyAdditionalData
                 /\ encryptionContextNames[a.encryptionContextName] = "additionalData"
        /\ \A g \in Callers :
              result[g].aead # NoAEAD
                  => result[g].aead.encryptionContextName = a.encryptionContextName

\* C7 witness: a client of NewClientWithOptions without a name option has
\* returned an adapter.
C7_Witness ==
    /\ phase = "ready"
    /\ args.fn = "NewClientWithOptions"
    /\ ~HasNameOption(args.opts)
    /\ \E g \in Callers : result[g].aead # NoAEAD

NameSets == {i \in DOMAIN setLog : setLog[i].opt.op = "WithEncryptionContextName"}

\* C8: the name of a descriptor is set at most once and only to AssociatedData
\* or LegacyAdditionalData: WithEncryptionContextName fails the construction on
\* any other value, and fails it when an earlier option already set a name,
\* which the descriptor then still holds.
C8_ContextNameSetOnce ==
    Constructed =>
        /\ a.encryptionContextName \in {0, AssociatedData, LegacyAdditionalData}
        /\ Cardinality({i \in NameSets : setLog[i].err = NoErr}) <= 1
        /\ \A i \in NameSets :
              /\ setLog[i].opt.name \notin {AssociatedData, LegacyAdditionalData}
                    => setLog[i].err # NoErr /\ ~ret.client
              /\ \A j \in NameSets :
                    j < i => /\ setLog[i].err # NoErr
                             /\ ~ret.client
                             /\ a.encryptionContextName = setLog[j].opt.name
              /\ setLog[i].err = NoErr => a.encryptionContextName = setLog[i].opt.name

\* C8 witness: a second WithEncryptionContextName, with a legal value other
\* than the first's, failed the construction.
C8_Witness ==
    /\ phase = "failed"
    /\ \E i, j \in NameSets :
          /\ j < i
          /\ setLog[j].opt.name = LegacyAdditionalData
          /\ setLog[i].opt.name = AssociatedData

\* A getKMSFromCredentialPath call got as far as the CSV stage.
ReachedCSV ==
    /\ cred.asked
    /\ cred.path # ""
    /\ getRegion(cred.uriPrefix).err = NoErr

\* What the CSV stage reports for the path of the call.
CSVReport == extractCredsCSV(cred.path).err

\* credentials.NewSharedCredentials(credentialPath, "default") was called.
FallbackAttempted == cred.out.creds = SharedCreds(cred.path, "default")

\* C10 as stated: the INI fallback is attempted exactly when the CSV stage
\* reports "not a CSV credential file" or "malformed"; a file that cannot be
\* opened, or any other CSV failure, is returned and no fallback is attempted.
C10_FallbackOnNotCSVOrMalformed ==
    ReachedCSV =>
        /\ FallbackAttempted <=> CSVReport \in {errNotCSV, errCredCSV}
        /\ CSVReport \notin {NoErr, errNotCSV, errCredCSV}
              => cred.out.err = CSVReport /\ cred.out.kms = NilKMS

\* C10 amended: the INI fallback is attempted exactly when the CSV stage
\* reports "not a CSV credential file" or the CSV reader itself fails; a file
\* that cannot be opened, or a malformed table, is returned as the error, with
\* no handle and no fallback.
C10_FallbackOnNotCSVOrReadError ==
    ReachedCSV =>
        /\ FallbackAttempted <=> CSVReport \in {errNotCSV, errCSVParse}
        /\ CSVReport \in {errBadFile, errCredCSV}
              => /\ cred.out.err = CSVReport
                 /\ cred.out.kms = NilKMS
                 /\ cred.out.creds = NoCreds
        /\ CSVReport \in {NoErr, errBadFile, errCredCSV, errNotCSV, errCSVParse}

\* C10 witness: a table with a header line only was reported malformed and
\* returned as the error, no fallback attempted.
C10_Witness ==
    /\ ReachedCSV
    /\ Len(Open(cred.path).records) = 1
    /\ CSVReport = errCredCSV
    /\ cred.out.err = errCredCSV
    /\ ~FallbackAttempted

\* The file of the last extractCredsCSV call.
CSVFile == Open(csv.file)

\* The file could be opened and encoding/csv read it as a table.
ReadableTable ==
    /\ csv.asked
    /\ CSVFile.exists
    /\ ~CSVFile.bareQuote
    /\ \A i \in DOMAIN CSVFile.records : Len(CSVFile.records[i]) = Len(CSVFile.records[1])

FewerThanTwoLines == Len(CSVFile.records) < 2
SecondLineShort == Len(CSVFile.records) >= 2 /\ Len(CSVFile.records[2]) < 4
FirstLineOneField == Len(CSVFile.records) >= 1 /\ Len(CSVFile.records[1]) = 1

\* The key id and the secret are the third and fourth field of the second line.
YieldsSecondLineKeys ==
    /\ csv.out.err = NoErr
    /\ csv.out.creds = [AccessKeyID |-> <<2, 3>>, SecretAccessKey |-> <<2, 4>>]

\* C11 as stated: of a readable table, fewer than two lines or a second line
\* of fewer than four fields yield the malformed-file error, a first line of
\* exactly one field yields "not a CSV credential file", and a header line
\* with a second line of at least four fields yields the keys of fields 3, 4.
C11_ClassifiedAsStated ==
    ReadableTable =>
        /\ FewerThanTwoLines \/ SecondLineShort => csv.out.err = errCredCSV
        /\ FirstLineOneField => csv.out.err = errNotCSV
        /\ ~FewerThanTwoLines /\ ~SecondLineShort => YieldsSecondLineKeys

\* C11 amended: the one-field test comes first.  A first line of exactly one
\* field yields "not a CSV credential file"; of the other readable tables,
\* fewer than two lines or a second line of fewer than four fields yield the
\* malformed-file error, and the rest yield the keys of fields 3 and 4 of the
\* second line.
C11_OneFieldTestFirst ==
    ReadableTable =>
        /\ FirstLineOneField => csv.out.err = errNotCSV /\ csv.out.creds = NoCredsValue
        /\ ~FirstLineOneField /\ (FewerThanTwoLines \/ SecondLineShort)
              => csv.out.err = errCredCSV /\ csv.out.creds = NoCredsValue
        /\ ~FirstLineOneField /\ ~FewerThanTwoLines /\ ~SecondLineShort
              => YieldsSecondLineKeys

\* C11 witness: a table of several one-field lines was reported as "not a CSV
\* credential file".
C11_Witness ==
    /\ ReadableTable
    /\ FirstLineOneField
    /\ Len(CSVFile.records) >= 2
    /\ csv.out.err = errNotCSV

\* The last Decrypt was given the ciphertext of the last Encrypt, on the
\* same adapter.
DecryptOfEncrypt ==
    /\ enc.done
    /\ dec.done
    /\ enc.out.err = NoErr
    /\ dec.aead = enc.aead
    /\ dec.ct = enc.out.ct

\* The resource locator of a key identifier: what follows the scheme, in
\* whichever letter case the scheme is spelled.
Locator(id) == SubSeq(id, Len(awsPrefix) + 1, Len(id))

\* The adapter of the last Encrypt was obtained for a key the remote service
\* holds.
EncryptKeyKnown == enc.done /\ BeginsWithScheme(enc.id) /\ Locator(enc.id) \in KnownKeys

\* C12: on an adapter obtained from GetAEAD for a key the remote service
\* knows, Encrypt succeeds, and Decrypt of its ciphertext with the same
\* associated data succeeds and returns the plaintext.
C12_DecryptReturnsPlaintext ==
    /\ EncryptKeyKnown => enc.out.err = NoErr
    /\ DecryptOfEncrypt /\ dec.ad = enc.ad
          => dec.out.err = NoErr /\ dec.out.pt = enc.pt

\* The round trip on the adapters that carry a bare resource locator.
RoundTripOnBareLocator ==
    /\ enc.done /\ enc.aead.keyURI \in KnownKeys => enc.out.err = NoErr
    /\ DecryptOfEncrypt /\ dec.ad = enc.ad
          => dec.out.err = NoErr /\ dec.out.pt = enc.pt

\* C13: Decrypt of a ciphertext with associated data other than the one it
\* was encrypted under returns an error and no plaintext.
C13_MismatchFails ==
    DecryptOfEncrypt /\ dec.ad # enc.ad
        => dec.out.err # NoErr /\ dec.out.pt = <<>>

\* C13 witness: a non-empty plaintext encrypted under one non-empty
\* associated data was refused under another.
C13_Witness ==
    /\ DecryptOfEncrypt
    /\ enc.pt # <<>>
    /\ enc.ad # <<>>
    /\ dec.ad # <<>>
    /\ dec.ad # enc.ad
    /\ dec.out.err = errContextMismatch

\* The shared state of a client apart from its handles: the accepted prefix,
\* the context-field-name, the selected strategy and the strategy's parameters.
ClientFrame ==
    [keyURIPrefix |-> a.keyURIPrefix,
     encryptionContextName |-> a.encryptionContextName,
     builder |-> a.builder,
     timeout |-> v.timeout,
     loadOpts |-> v.loadOpts,
     kmsOpts |-> v.kmsOpts]

\* C14: once a client is constructed, no step of a GetAEAD call changes the
\* accepted prefix, the context-field-name, the selected strategy or the
\* strategy's timeout, load options and handle options.
C14_GetAEADFrame ==
    [][phase = "ready" => ClientFrame' = ClientFrame]_vars

\* C15: for every identifier the client reports as supported, what GetAEAD
\* passes to the strategy is the identifier without its scheme: the bare
\* resource locator, starting at "arn:".
C15_SchemeStripped ==
    \A g \in Callers :
        call[g].seq > 0 /\ IsLiteralPrefix(a.keyURIPrefix, call[g].keyURI)
            => /\ call[g].uri = Locator(call[g].keyURI)
               /\ IsLiteralPrefix(<<"a","r","n",":">>, call[g].uri)

\* The constructor applied exactly one WithV2KMSOptions, so that v2SetLog is
\* the log of that one call.
OneV2OptionsCall ==
    Cardinality({k \in DOMAIN setLog : setLog[k].opt.op = "WithV2KMSOptions"}) = 1

\* What a V2ClientOption asks to set, and what the v2Client holds for it.
V2Asked(opt) == IF opt.op = "WithAPITimeout" THEN opt.timeout ELSE opt.opts
V2Held(op) ==
    CASE op = "WithAPITimeout" -> v.timeout
      [] op = "WithLoadOptions" -> v.loadOpts
      [] op = "WithKMSOptions" -> v.kmsOpts

\* C16: within one WithV2KMSOptions call, a second WithAPITimeout,
\* WithLoadOptions or WithKMSOptions is refused, construction fails, and the
\* v2Client keeps the value of the first application, whatever that value is.
C16_SecondApplicationFails ==
    OneV2OptionsCall =>
        \A i, j \in DOMAIN v2SetLog :
            /\ i < j
            /\ v2SetLog[i].opt.op = v2SetLog[j].opt.op
            /\ v2SetLog[i].opt.op \in {"WithAPITimeout", "WithLoadOptions", "WithKMSOptions"}
            => /\ v2SetLog[j].err # NoErr
               /\ ~ret.client
               /\ V2Held(v2SetLog[i].opt.op) = V2Asked(v2SetLog[i].opt)

\* The handle slot the selected strategy reads.
ActiveHandle == IF a.builder = "v1" THEN a.kms ELSE v.kms

\* The result of a call whose lazy construction failed.
BuildFailed(r) == r.seq > 0 /\ r.err # NoErr /\ Head(r.err) = "building AEAD"

\* C17: with calls made one after the other, a call whose lazy construction
\* failed returned an error and no adapter; after the latest call failed so
\* the handle is still unset; and while the handle is unset every call that
\* reached the builder has attempted construction, none was turned away by
\* an earlier failure.
C17_FailureNotMemoized ==
    /\ \A g \in Callers :
           pc[g] = "idle" /\ BuildFailed(result[g])
               => /\ result[g].aead = NoAEAD
                  /\ result[g].seq = nCalls => ActiveHandle = NilKMS
    /\ AllIdle /\ ActiveHandle = NilKMS => nAttempts = nInvoked /\ built = <<>>

\* C17 witness: a first call failed in construction, and a later call
\* attempted it again and obtained an adapter bound to the handle it built.
C17_Witness ==
    \E g, h \in Callers :
        /\ AllIdle
        /\ BuildFailed(result[g])
        /\ result[h].seq > result[g].seq
        /\ result[h].err = NoErr
        /\ nAttempts = 2
        /\ Len(built) = 1
        /\ result[h].aead.kms = built[1]

\* The option list of the constructor call supplies no handle.
SuppliesHandle(opt) ==
    \/ opt.op \in {"WithKMS", "WithCredentialPath"}
    \/ /\ opt.op = "WithV2KMSOptions"
       /\ \E j \in DOMAIN opt.opts : opt.opts[j].op = "WithV2KMS"

NoHandleSupplied == \A i \in DOMAIN args.opts : ~SuppliesHandle(args.opts[i])

\* C1: on a client built with no handle supplied, the GetAEAD calls, however
\* they interleave, construct at most one handle, and every adapter returned
\* is bound to it.
C1_AtMostOneHandle ==
    (phase = "ready" /\ NoHandleSupplied) =>
        /\ Len(built) <= 1
        /\ \A g \in Callers :
              result[g].aead # NoAEAD
                  => built # <<>> /\ result[g].aead.kms = built[1]

\* How many times the option list supplies a handle: WithKMS and
\* WithCredentialPath once each, a WithV2KMSOptions once per WithV2KMS in it.
HandleSources ==
    Cardinality({i \in DOMAIN args.opts :
                    args.opts[i].op \in {"WithKMS", "WithCredentialPath"}})
    + Cardinality({ij \in (DOMAIN args.opts) \X (1..MaxOpts + 1) :
                    /\ args.opts[ij[1]].op = "WithV2KMSOptions"
                    /\ ij[2] \in DOMAIN args.opts[ij[1]].opts
                    /\ args.opts[ij[1]].opts[ij[2]].op = "WithV2KMS"})

DuplicateHandleErrors ==
    {errKMSSet("WithKMS"), errKMSSet("WithCredentialPath"),
     Wrap("failed setting option", errV2KMSSet)}

\* C2: NewClientWithOptions fails whenever its option list supplies a handle
\* more than once, by WithKMS, WithCredentialPath or a WithV2KMS inside
\* WithV2KMSOptions, in any order; with one handle source no option is
\* refused as a duplicate handle.
C2_DuplicateHandleFails ==
    (Constructed /\ BeginsWithScheme(args.uriPrefix)) =>
        /\ HandleSources >= 2 => ~ret.client
        /\ HandleSources = 1
              => \A i \in DOMAIN setLog : setLog[i].err \notin DuplicateHandleErrors

\* The options of the list that select a handle-construction strategy.
StrategySelections ==
    {i \in DOMAIN args.opts : args.opts[i].op \in {"UseV2", "WithV2KMSOptions"}}

HasOption(op) == \E i \in DOMAIN args.opts : args.opts[i].op = op

\* C9: selecting a strategy after one was already selected (UseV2 or
\* WithV2KMSOptions after an earlier UseV2 or WithV2KMSOptions), or combining
\* WithKMS with WithCredentialPath, makes the constructor fail.
C9_StrategySwitchFails ==
    (Constructed /\ BeginsWithScheme(args.uriPrefix)) =>
        /\ Cardinality(StrategySelections) >= 2 => ~ret.client
        /\ (HasOption("WithKMS") /\ HasOption("WithCredentialPath")) => ~ret.client

\* The handles the client holds: a.kms and the bound v2Client's kms.
HeldHandles == {a.kms, v.kms} \ {NilKMS}

\* C3: once the client holds a handle, GetAEAD calls made one after the other
\* construct no new handle, and every adapter they return is bound to a handle
\* the client held.
C3_HandleReused ==
    [][(phase = "ready" /\ HeldHandles # {}) =>
          /\ built' = built
          /\ \A g \in Callers :
                (result'[g] # result[g] /\ result'[g].aead # NoAEAD)
                    => result'[g].aead.kms \in HeldHandles]_vars

====
